---------------------------- MODULE Spec2Model ----------------------------
(***************************************************************************)
(* A model of gamecube-tools' elf2rel (src/src/elf2rel.rs): the conversion *)
(* of a relocatable PowerPC ELF object into a GameCube REL module.         *)
(*                                                                         *)
(* The output buffer `rel` is modelled byte for byte.  File offsets are    *)
(* 0-based as in the code; the byte at file offset o is rel[o + 1].        *)
(* The ELF is modelled as what the `object` crate exposes to the code: the *)
(* section list (name, kind, align, size, data), the relocations of each   *)
(* section and the symbol table.                                           *)
(***************************************************************************)
EXTENDS Integers, Sequences, FiniteSets, TLC

U8  == 256
U16 == 65536

\* Option<T>
None == [some |-> FALSE, val |-> 0]
Some(x) == [some |-> TRUE, val |-> x]

Max(a, b) == IF a >= b THEN a ELSE b

\* usize::next_multiple_of
NextMultipleOf(n, a) == IF n % a = 0 THEN n ELSE n + (a - (n % a))

Zeros(n) == [i \in 1..n |-> 0]

(***************************************************************************)
(* 32-bit values.  TLC's integers are 32-bit signed, so a u32 / i32 that   *)
(* may use the top bit (an address, an addend, an instruction word) is the *)
(* pair << high 16 bits, low 16 bits >>, with wrapping arithmetic.  Buffer *)
(* lengths, file offsets, sizes and ids stay plain integers: they are      *)
(* below 2^31 in every input of the model, where `as u32` changes nothing. *)
(***************************************************************************)
\* n as u32, for an integer n of -2^31 .. 2^31 - 1
W32(n) == << (n \div U16) % U16, n % U16 >>

\* u32 wrapping_add / wrapping_sub (i32 arithmetic has the same bits)
Add32(a, b) ==
    LET lo == a[2] + b[2]
    IN  << (a[1] + b[1] + (lo \div U16)) % U16, lo % U16 >>
Sub32(a, b) ==
    LET lo == a[2] - b[2]
    IN  << (a[1] - b[1] + (lo \div U16)) % U16, lo % U16 >>

\* big_endian::U16, big_endian::U32 (of an integer, of a 32-bit pair) as bytes
BE16(n) == << (n \div 256) % 256, n % 256 >>
BE32(n) == BE16((n \div U16) % U16) \o BE16(n % U16)
BE32W(w) == BE16(w[1]) \o BE16(w[2])

\* The big-endian values at file offset o of buffer b
ReadBE16(b, o) == b[o + 1] * 256 + b[o + 2]
ReadW32(b, o) == << ReadBE16(b, o), ReadBE16(b, o + 2) >>
\* ... as an integer, for a field known to hold a value below 2^31
ReadBE32(b, o) == ReadBE16(b, o) * U16 + ReadBE16(b, o + 2)

\* dst[o .. o + Len(src)].copy_from_slice(src)
CopyInto(dst, o, src) ==
    [i \in 1..Len(dst) |-> IF i > o /\ i <= o + Len(src) THEN src[i - o] ELSE dst[i]]

\* Bitwise and / or of two naturals
RECURSIVE BitAnd(_, _)
BitAnd(a, b) ==
    IF a = 0 \/ b = 0 THEN 0
    ELSE (a % 2) * (b % 2) + 2 * BitAnd(a \div 2, b \div 2)

RECURSIVE BitOr(_, _)
BitOr(a, b) ==
    IF a = 0 THEN b
    ELSE IF b = 0 THEN a
    ELSE Max(a % 2, b % 2) + 2 * BitOr(a \div 2, b \div 2)

And32(a, b) == << BitAnd(a[1], b[1]), BitAnd(a[2], b[2]) >>
Or32(a, b) == << BitOr(a[1], b[1]), BitOr(a[2], b[2]) >>

StartsWith(s, p) == Len(s) >= Len(p) /\ SubSeq(s, 1, Len(p)) = p

(***************************************************************************)
(* Sizes of the zerocopy structs and the relocation type codes.            *)
(***************************************************************************)
ModuleHeaderSize == 64
ModuleV2HeaderAddendumSize == 8
ModuleV3HeaderAddendumSize == 4
SectionInfoSize == 8
ImportInfoSize == 8
RelocationSize == 8

PpcNone == 0
PpcAddr32 == 1
PpcAddr24 == 2
PpcAddr16 == 3
PpcAddr16Lo == 4
PpcAddr16Hi == 5
PpcAddr16Ha == 6
PpcAddr14 == 7
PpcAddr14BrTaken == 8
PpcAddr14BrNkTaken == 9
PpcRel24 == 10
PpcRel14 == 11
PpcRel32 == 26
DolphinNop == 201
DolphinSection == 202
DolphinEnd == 203

\* RelocationType::try_from succeeds exactly on these codes
RelocationType ==
    (0..11) \cup {PpcRel32, DolphinNop, DolphinSection, DolphinEnd}

MAX_OFFSET_DELTA == 65535

V1 == 1
V2 == 2
V3 == 3
RelVersion == {V1, V2, V3}

\* The structs as bytes; a Relocation's addend is a 32-bit pair
SectionInfo(offset, size) == BE32(offset) \o BE32(size)
ImportInfo(id, offset) == BE32(id) \o BE32(offset)
Relocation(offset, type_, section, addend) ==
    BE16(offset % U16) \o << type_ % U8, section % U8 >> \o BE32W(addend)

\* const VALID_REL_SECTIONS
VALID_REL_SECTIONS ==
    { << ".", "i", "n", "i", "t" >>,
      << ".", "t", "e", "x", "t" >>,
      << ".", "c", "t", "o", "r", "s" >>,
      << ".", "d", "t", "o", "r", "s" >>,
      << ".", "r", "o", "d", "a", "t", "a" >>,
      << ".", "d", "a", "t", "a" >>,
      << ".", "b", "s", "s" >> }

\* write_sections: valid_section_name
ValidSectionName(name) ==
    \E cand \in VALID_REL_SECTIONS :
        name = cand \/ StartsWith(name, cand \o << "." >>)

\* SectionKind::is_bss
IsBss(kind) == kind \in {"UninitializedData", "UninitializedTls", "Common"}


(***************************************************************************)
(* The ELF inputs.  A section is what object::Section exposes; its index   *)
(* is its position in the section table (the first entry, index 0, is the  *)
(* ELF null section).  A symbol is (section, address); a relocation is     *)
(* (section whose table holds it, offset, target, r_type, addend).         *)
(***************************************************************************)
Section(name, kind, align, data) ==
    [name |-> name, kind |-> kind, align |-> align, size |-> Len(data), data |-> data]
BssSection(name, align, size) ==
    [name |-> name, kind |-> "UninitializedData", align |-> align, size |-> size,
     data |-> << >>]

NullSection == Section(<< >>, "Metadata", 0, << >>)

\* section.index() of the i-th section that elf.sections() yields
SectionIndex(i) == i - 1

InSection(idx) == [kind |-> "Section", index |-> idx]
Undefined == [kind |-> "Undefined", index |-> 0]
Absolute == [kind |-> "Absolute", index |-> 0]
Symbol(section, address) == [section |-> section, address |-> address]

ToSymbol(name) == [kind |-> "Symbol", name |-> name]
ToSection == [kind |-> "Section", name |-> << >>]
ElfReloc(section, offset, target, r_type, addend) ==
    [section |-> section, offset |-> offset, target |-> target, r_type |-> r_type,
     addend |-> addend]

Name_prolog == << "_", "p", "r", "o", "l", "o", "g" >>
Name_epilog == << "_", "e", "p", "i", "l", "o", "g" >>
Name_unresolved == << "_", "u", "n", "r", "e", "s", "o", "l", "v", "e", "d" >>
NameA == << "A" >>
NameB == << "B" >>
NameFoo == << "f", "o", "o" >>
NameNoMap == << "n", "o", "m", "a", "p" >>
NameLoc1 == << "l", "o", "c", "1" >>
NameLoc2 == << "l", "o", "c", "2" >>
NameBss0 == << "b", "s", "s", "0" >>
NameAbs == << "a", "b", "s" >>

\* Sections of varied names, kinds, alignments and sizes (layout inputs)
LayoutSections ==
    { Section(<< ".", "t", "e", "x", "t" >>, "Text", 4, << 72, 0, 0, 1, 96, 0 >>),
      Section(<< ".", "d", "a", "t", "a" >>, "Data", 8, << 170, 187, 204 >>),
      Section(<< ".", "r", "o", "d", "a", "t", "a", ".", "s" >>, "ReadOnlyData", 1, << 65 >>),
      Section(<< ".", "c", "t", "o", "r", "s" >>, "Data", 0, << 0, 0, 0, 0 >>),
      Section(<< ".", "t", "e", "x", "t", "2" >>, "Text", 4, << 96, 0 >>),
      Section(<< ".", "c", "o", "m", "m", "e", "n", "t" >>, "Other", 1, << 71, 67 >>),
      BssSection(<< ".", "b", "s", "s" >>, 16, 5) }

\* The fixed section table of the relocation inputs: index 1 = .text holding
\* the words 0x48000001 and 0x4BFFFFFD, index 2 = .data, index 3 = .bss
StreamSections ==
    << NullSection,
       Section(<< ".", "t", "e", "x", "t" >>, "Text", 4, << 72, 0, 0, 1, 75, 255, 255, 253 >>),
       Section(<< ".", "d", "a", "t", "a" >>, "Data", 4, << 0, 0, 0, 0 >>),
       BssSection(<< ".", "b", "s", "s" >>, 8, 8) >>

\* The three symbols the header needs, all defined in section 1
HeaderSymbols ==
    (Name_prolog :> Symbol(InSection(1), 0)) @@
    (Name_epilog :> Symbol(InSection(1), 4)) @@
    (Name_unresolved :> Symbol(InSection(1), 4))

StreamSymbols ==
    HeaderSymbols @@
    (NameA :> Symbol(Undefined, 0)) @@
    (NameB :> Symbol(Undefined, 0)) @@
    (NameFoo :> Symbol(Undefined, 0)) @@
    (NameNoMap :> Symbol(Undefined, 0)) @@
    (NameLoc1 :> Symbol(InSection(1), 4)) @@
    (NameLoc2 :> Symbol(InSection(2), 0)) @@
    (NameBss0 :> Symbol(InSection(3), 0)) @@
    (NameAbs :> Symbol(Absolute, 16))

\* "80001000:A\n80002000:B\n"
DefaultSymbolMap ==
    << "8", "0", "0", "0", "1", "0", "0", "0", ":", "A", "\n",
       "8", "0", "0", "0", "2", "0", "0", "0", ":", "B", "\n" >>


(***************************************************************************)
(* parse_symbol_map.  Text is a sequence of one-character strings.         *)
(***************************************************************************)
\* char::is_whitespace, on the characters the inputs use
WhiteSpace == { " ", "\t", "\r", "\n", "\f" }

\* str::trim
RECURSIVE TrimStart(_)
TrimStart(s) ==
    IF s # << >> /\ Head(s) \in WhiteSpace THEN TrimStart(Tail(s)) ELSE s

RECURSIVE TrimEnd(_)
TrimEnd(s) ==
    IF s # << >> /\ s[Len(s)] \in WhiteSpace THEN TrimEnd(SubSeq(s, 1, Len(s) - 1)) ELSE s

Trim(s) == TrimEnd(TrimStart(s))

\* The position of the first c in s, 0 when there is none
FirstIndexOf(s, c) ==
    IF \E i \in 1..Len(s) : s[i] = c
    THEN CHOOSE i \in 1..Len(s) : s[i] = c /\ \A j \in 1..(i - 1) : s[j] # c
    ELSE 0

\* str::lines: split at "\n", the final line ending optional, one trailing
\* "\r" of a line dropped
RECURSIVE Lines(_)
Lines(s) ==
    IF s = << >> THEN << >>
    ELSE LET k == FirstIndexOf(s, "\n")
             raw == IF k = 0 THEN s ELSE SubSeq(s, 1, k - 1)
             line == IF raw # << >> /\ raw[Len(raw)] = "\r"
                     THEN SubSeq(raw, 1, Len(raw) - 1) ELSE raw
             rest == IF k = 0 THEN << >> ELSE SubSeq(s, k + 1, Len(s))
         IN  << line >> \o Lines(rest)

\* char::to_digit(16)
HexDigits ==
    ("0" :> 0) @@ ("1" :> 1) @@ ("2" :> 2) @@ ("3" :> 3) @@ ("4" :> 4) @@
    ("5" :> 5) @@ ("6" :> 6) @@ ("7" :> 7) @@ ("8" :> 8) @@ ("9" :> 9) @@
    ("a" :> 10) @@ ("b" :> 11) @@ ("c" :> 12) @@ ("d" :> 13) @@ ("e" :> 14) @@
    ("f" :> 15) @@ ("A" :> 10) @@ ("B" :> 11) @@ ("C" :> 12) @@ ("D" :> 13) @@
    ("E" :> 14) @@ ("F" :> 15)

\* acc * 16 + digit by digit on a 32-bit pair; ok turns FALSE when the value
\* leaves 32 bits (checked_mul / checked_add fail)
RECURSIVE HexValue(_, _)
HexValue(s, acc) ==
    IF s = << >> \/ ~acc.ok THEN acc
    ELSE LET lo == acc.val[2] * 16 + HexDigits[Head(s)]
             hi == acc.val[1] * 16 + (lo \div U16)
         IN  HexValue(Tail(s), [ok |-> hi < U16, val |-> << hi % U16, lo % U16 >>])

\* u32::from_str_radix(s, 16): an optional "+", then one or more hex digits,
\* the value below 2^32
FromStrRadix16(s) ==
    LET digits == IF s # << >> /\ Head(s) = "+" THEN Tail(s) ELSE s
        wellformed == digits # << >> /\ \A i \in 1..Len(digits) : digits[i] \in DOMAIN HexDigits
    IN  IF wellformed THEN HexValue(digits, [ok |-> TRUE, val |-> << 0, 0 >>])
        ELSE [ok |-> FALSE, val |-> << 0, 0 >>]

EmptyMap == [n \in {} |-> 0]

\* One iteration of the loop of parse_symbol_map on `line`, `map` the map so
\* far: the map after it, or the error
ParseSymbolMapLine(rawline, map) ==
    LET line == Trim(rawline)
        colon == FirstIndexOf(line, ":")
        addr == SubSeq(line, 1, colon - 1)
        name == SubSeq(line, colon + 1, Len(line))
        parsed == FromStrRadix16(Trim(addr))
    IN  IF line = << >> \/ StartsWith(line, << "/", "/" >>) THEN [ok |-> TRUE, map |-> map]
        ELSE IF colon = 0 THEN [ok |-> FALSE, map |-> map]
        ELSE IF name = << >> THEN [ok |-> FALSE, map |-> map]
        ELSE IF ~parsed.ok THEN [ok |-> FALSE, map |-> map]
        ELSE [ok |-> TRUE, map |-> (name :> parsed.val) @@ map]

RECURSIVE ParseSymbolMapLines(_, _)
ParseSymbolMapLines(lines, map) ==
    IF lines = << >> THEN [ok |-> TRUE, map |-> map]
    ELSE LET r == ParseSymbolMapLine(Head(lines), map)
         IN  IF r.ok THEN ParseSymbolMapLines(Tail(lines), r.map) ELSE r

\* parse_symbol_map(buf), buf valid UTF-8
parse_symbol_map(buf) == ParseSymbolMapLines(Lines(buf), EmptyMap)


(***************************************************************************)
(* The input families of the model.                                        *)
(***************************************************************************)
MaxSections == 2
MaxRelocs == 3

ModuleIds == {0, 4096}

SeqsUpTo(S, lo, hi) == UNION { [1..k -> S] : k \in lo..hi }

Elf(sections, symbols, relocations) ==
    [sections |-> sections, symbols |-> symbols, relocations |-> relocations]

\* Layout inputs: the null section, then up to MaxSections sections; no
\* relocation, or one against the external symbol A in section 1
LayoutElfs ==
    { Elf(<< NullSection >> \o ss, HeaderSymbols @@ (NameA :> Symbol(Undefined, 0)), rs) :
        ss \in SeqsUpTo(LayoutSections, 1, MaxSections),
        rs \in { << >>, << ElfReloc(1, 0, ToSymbol(NameA), PpcAddr32, 0) >> } }

\* Relocation inputs: the relocations an ELF relocation table may hold
ElfRelocs ==
    { \* external, emitted in the stream of module 0
      ElfReloc(1, 0, ToSymbol(NameA), PpcAddr32, 0),
      ElfReloc(1, 4, ToSymbol(NameB), PpcAddr32, 0),
      ElfReloc(1, 65535, ToSymbol(NameA), PpcAddr16Lo, 0),
      ElfReloc(1, 131072, ToSymbol(NameA), PpcAddr16Ha, -4),
      ElfReloc(2, 0, ToSymbol(NameB), PpcRel24, 0),
      \* external, of a type the stream does not support
      ElfReloc(1, 4, ToSymbol(NameA), PpcRel14, 0),
      ElfReloc(2, 0, ToSymbol(NameA), PpcRel32, 0),
      \* against a symbol of this ELF, emitted in the stream of module_id
      ElfReloc(2, 0, ToSymbol(NameLoc1), PpcAddr32, 0),
      \* against a symbol of this ELF, resolved statically
      ElfReloc(1, 0, ToSymbol(NameLoc2), PpcRel24, 0),
      ElfReloc(1, 4, ToSymbol(NameLoc1), PpcRel24, 12),
      ElfReloc(2, 0, ToSymbol(NameLoc1), PpcRel32, 8),
      \* ... whose target section holds no bytes in the file
      ElfReloc(1, 0, ToSymbol(NameBss0), PpcRel24, 0) }

StreamElfs ==
    { Elf(StreamSections, StreamSymbols, rs) : rs \in SeqsUpTo(ElfRelocs, 0, MaxRelocs) }

\* Rejected inputs: a relocation extract_relocations fails on (a symbol the
\* map lacks, an absolute symbol, an unknown type code, a section target, a
\* type code that only fits after `as u8`) or the stream emission fails on
\* (a PpcRel14 against a symbol of this ELF), after one that is accepted
RejectedRelocs ==
    { ElfReloc(1, 0, ToSymbol(NameNoMap), PpcAddr32, 0),
      ElfReloc(1, 0, ToSymbol(NameAbs), PpcAddr32, 0),
      ElfReloc(1, 0, ToSymbol(NameA), 12, 0),
      ElfReloc(1, 0, ToSection, PpcAddr32, 0),
      \* held by the table of .bss, which has no recorded offset: never visited
      ElfReloc(3, 0, ToSymbol(NameNoMap), PpcAddr32, 0),
      \* r_type 257 is PpcAddr32 after `as u8`
      ElfReloc(2, 8, ToSymbol(NameB), 257, 0),
      ElfReloc(1, 4, ToSymbol(NameLoc1), PpcRel14, 0) }

RejectedElfs ==
    { Elf(StreamSections, StreamSymbols,
          << ElfReloc(1, 0, ToSymbol(NameA), PpcAddr32, 0), r >>) : r \in RejectedRelocs }

\* Header symbol inputs: each of _prolog, _epilog, _unresolved is absent,
\* undefined (no defining section) or defined in section 1
HeaderSymbolTables ==
    { [n \in present |-> IF n \in defined THEN Symbol(InSection(1), 4) ELSE Symbol(Undefined, 0)] :
        present \in SUBSET {Name_prolog, Name_epilog, Name_unresolved},
        defined \in SUBSET {Name_prolog, Name_epilog, Name_unresolved} }

HeaderSymbolElfs == { Elf(StreamSections, st, << >>) : st \in HeaderSymbolTables }

\* Symbol map inputs: an optional first line, then <ws>HEX<ws>:<ws>NAME<ws>
NameComment == << "/", "/", " ", "c", "\n" >>
FirstLines ==
    { << >>, NameComment, << " ", "\n" >>, << "1", "0", ":", "f", "o", "o", "\r", "\n" >>,
      << "f", "o", "o", "\n" >> }
HexTexts ==
    { << "d", "e", "a", "d", "b", "e", "e", "f" >>, << "+", "1", "F" >>, << >>,
      << "0", "x", "1", "0" >>, << "1", "0", "0", "0", "0", "0", "0", "0", "0" >> }
NameTexts == { NameFoo, << >> }
OuterBlanks == { << >>, << " ", " " >> }
InnerBlanks == { << >>, << " " >>, << "\t" >> }
SymbolMapTexts ==
    { first \o b1 \o hex \o b2 \o << ":" >> \o b3 \o name \o b4 :
        first \in FirstLines, hex \in HexTexts, name \in NameTexts,
        b1 \in OuterBlanks, b4 \in OuterBlanks, b2 \in InnerBlanks, b3 \in InnerBlanks }

SymbolMapElf ==
    Elf(StreamSections, StreamSymbols, << ElfReloc(1, 0, ToSymbol(NameFoo), PpcAddr32, 0) >>)

(***************************************************************************)
(* The state of one call of elf2rel.                                       *)
(***************************************************************************)
VARIABLES
    elf,                 \* the parsed ELF (parse_elf succeeded)
    symbol_map,          \* the symbol map text
    module_id,
    rel_version,
    pc,                  \* the position in elf2rel
    result,              \* "running", or how the call ended: "Ok", "Err", "panic"
    output,              \* the bytes returned with Ok
    rel,                 \* the output buffer
    section_pos,         \* write_sections: the position of the loop over elf.sections()
    section_info_buffer, \* write_sections: section_info_buffer
    section_stats,       \* write_sections: its locals, then the SectionStats it returns
    symbol_table,        \* extract_relocations: the parsed symbol map
    relocations,         \* the sorted Vec<ElfRelocation>
    wr,                  \* write_relocations: its locals
    relocation_stats     \* the RelocationStats of write_relocations

\* The state of one call of gcipack (src/src/gcipack.rs)
VARIABLES
    args,                \* file, file_name, title, description, banner, icon, gamecode
    now,                 \* SystemTime::now(), in seconds since the Unix epoch
    gci_pc,              \* the position in gcipack
    gci_result,          \* "running", or how the call ended
    gci                  \* the bytes returned with Ok

gci_vars == << args, now, gci_pc, gci_result, gci >>

elf2rel_vars ==
    << elf, symbol_map, module_id, rel_version, pc, result, output, rel, section_pos,
       section_info_buffer, section_stats, symbol_table, relocations, wr, relocation_stats >>

vars == << elf2rel_vars, gci_vars >>

inputs == << elf, symbol_map, module_id, rel_version >>

NoSectionStats ==
    [total_bss_size |-> 0, max_align |-> 0, max_bss_align |-> 0, section_info_offset |-> 0,
     section_offsets |-> EmptyMap]
NoWr ==
    [import_count |-> 0, import_info_offset |-> 0, relocation_offset |-> 0,
     import_info_buffer |-> << >>, current_module_id |-> None,
     current_section_index |-> None, current_offset |-> 0, pos |-> 0]
NoRelocationStats ==
    [relocations_offset |-> 0, import_info_offset |-> 0, import_info_size |-> 0]

\* No call of gcipack is under way
NoArgs ==
    [file |-> << >>, file_name |-> << >>, title |-> << >>, description |-> << >>,
     banner |-> << >>, icon |-> << >>, gamecode |-> << >>]
GciRunning == [status |-> "running", error |-> "", kind |-> ""]
GciIdle ==
    /\ args = NoArgs
    /\ now = 0
    /\ gci_pc = "idle"
    /\ gci_result = GciRunning
    /\ gci = << >>

Init ==
    /\ GciIdle
    /\ \/ elf \in LayoutElfs /\ symbol_map = DefaultSymbolMap
          /\ module_id = 4096 /\ rel_version \in RelVersion
       \/ elf \in StreamElfs /\ symbol_map = DefaultSymbolMap
          /\ module_id \in ModuleIds /\ rel_version = V3
       \/ elf \in RejectedElfs /\ symbol_map = DefaultSymbolMap
          /\ module_id \in ModuleIds /\ rel_version = V3
       \/ elf \in HeaderSymbolElfs /\ symbol_map = DefaultSymbolMap
          /\ module_id = 4096 /\ rel_version \in RelVersion
       \/ elf = SymbolMapElf /\ symbol_map \in SymbolMapTexts
          /\ module_id = 4096 /\ rel_version = V1
    /\ pc = "elf2rel"
    /\ result = "running"
    /\ output = << >>
    /\ rel = << >>
    /\ section_pos = 0
    /\ section_info_buffer = << >>
    /\ section_stats = NoSectionStats
    /\ symbol_table = EmptyMap
    /\ relocations = << >>
    /\ wr = NoWr
    /\ relocation_stats = NoRelocationStats

\* The call ends: Ok(rel), an Err (bail!, `?`), or a panic (unwrap, indexing)
Return(kind) ==
    /\ pc' = "returned"
    /\ result' = kind
    /\ output' = IF kind = "Ok" THEN rel' ELSE << >>

(***************************************************************************)
(* elf2rel, lines 581-590: the placeholder of the module header.           *)
(***************************************************************************)
HeaderSize(version) ==
    ModuleHeaderSize
    + (IF version >= V2 THEN ModuleV2HeaderAddendumSize ELSE 0)
    + (IF version >= V3 THEN ModuleV3HeaderAddendumSize ELSE 0)

ReserveHeader ==
    /\ pc = "elf2rel"
    /\ rel' = Zeros(HeaderSize(rel_version))
    /\ pc' = "write_sections"
    /\ UNCHANGED << gci_vars, inputs, result, output, section_pos, section_info_buffer, section_stats,
                    symbol_table, relocations, wr, relocation_stats >>

(***************************************************************************)
(* write_sections                                                          *)
(***************************************************************************)
\* lines 186-198: the placeholder of the SectionInfo table, the locals
BeginWriteSections ==
    /\ pc = "write_sections"
    /\ rel' = rel \o Zeros(SectionInfoSize * Len(elf.sections))
    /\ section_stats' = [total_bss_size |-> 0, max_align |-> 2, max_bss_align |-> 2,
                         section_info_offset |-> Len(rel), section_offsets |-> EmptyMap]
    /\ section_info_buffer' = << >>
    /\ section_pos' = 1
    /\ pc' = "section_loop"
    /\ UNCHANGED << gci_vars, inputs, result, output, symbol_table, relocations, wr, relocation_stats >>

\* Mutant of SectionAlign: the minimum of 2 forgotten
SectionAlign_NoMinimum(section) == Max(section.align, 1)

\* line 219: the alignment of a non-BSS section
SectionAlign(section) == Max(section.align, 2)

\* line 223: the buffer length after the padding
PaddedLen(len, align) == NextMultipleOf(len, align)

\* Mutant of EncodedOffset: the text flag forgotten
EncodedOffset_NoFlag(kind, len) == len

\* lines 226-230: rel.len() | 1 for a text section
EncodedOffset(kind, len) ==
    IF kind = "Text" THEN (IF len % 2 = 0 THEN len + 1 ELSE len) ELSE len

\* lines 199-251: one iteration of the loop over elf.sections()
WriteSection ==
    /\ pc = "section_loop"
    /\ section_pos <= Len(elf.sections)
    /\ LET section == elf.sections[section_pos]
           align == SectionAlign(section)
           start == PaddedLen(Len(rel), align)
       IN  IF ValidSectionName(section.name)
           THEN IF IsBss(section.kind)
                THEN /\ section_stats' =
                            [section_stats EXCEPT
                                !.max_bss_align = Max(@, section.align),
                                !.total_bss_size = @ + section.size]
                     /\ section_info_buffer' =
                            section_info_buffer \o SectionInfo(0, section.size)
                     /\ rel' = rel
                ELSE /\ section_stats' =
                            [section_stats EXCEPT
                                !.max_align = Max(@, align),
                                !.section_offsets =
                                    (SectionIndex(section_pos) :> start) @@ @]
                     /\ section_info_buffer' =
                            section_info_buffer
                                \o SectionInfo(EncodedOffset(section.kind, start), section.size)
                     /\ rel' = rel \o Zeros(start - Len(rel)) \o section.data
           ELSE /\ section_info_buffer' = section_info_buffer \o SectionInfo(0, 0)
                /\ UNCHANGED << rel, section_stats >>
    /\ section_pos' = section_pos + 1
    /\ UNCHANGED << gci_vars, inputs, pc, result, output, symbol_table, relocations, wr,
                    relocation_stats >>

\* lines 253-264: the SectionInfo table copied over its placeholder
FillSectionInfo ==
    /\ pc = "section_loop"
    /\ section_pos > Len(elf.sections)
    /\ rel' = CopyInto(rel, section_stats.section_info_offset, section_info_buffer)
    /\ pc' = "parse_symbol_map"
    /\ UNCHANGED << gci_vars, inputs, result, output, section_pos, section_info_buffer, section_stats,
                    symbol_table, relocations, wr, relocation_stats >>


(***************************************************************************)
(* extract_relocations                                                     *)
(***************************************************************************)
\* line 275: the symbol map is parsed first; an error is returned with `?`
ParseSymbolMap ==
    /\ pc = "parse_symbol_map"
    /\ LET parsed == parse_symbol_map(symbol_map)
       IN  IF parsed.ok
           THEN /\ symbol_table' = parsed.map
                /\ pc' = "extract_relocations"
                /\ UNCHANGED << result, output >>
           ELSE /\ symbol_table' = symbol_table
                /\ Return("Err")
    /\ UNCHANGED << gci_vars, inputs, rel, section_pos, section_info_buffer, section_stats,
                    relocations, wr, relocation_stats >>

ElfRelocation(src_section, src_offset, dest_module, dest_section, addend, type_) ==
    [src_section |-> src_section, src_offset |-> src_offset, dest_module |-> dest_module,
     dest_section |-> dest_section, addend |-> addend, type_ |-> type_]

\* lines 284-323: the ElfRelocation pushed for one ELF relocation, or the error
ExtractRelocation(r) ==
    LET dest_symbol == elf.symbols[r.target.name]
        failed == [ok |-> FALSE, rel |-> ElfRelocation(0, 0, 0, 0, << 0, 0 >>, 0)]
    IN  IF r.target.kind # "Symbol" THEN failed
        ELSE IF (r.r_type % U8) \notin RelocationType THEN failed
        ELSE IF dest_symbol.section.kind = "Section"
        THEN [ok |-> TRUE,
              rel |-> ElfRelocation(r.section, r.offset, module_id, dest_symbol.section.index,
                                    Add32(W32(dest_symbol.address), W32(r.addend)),
                                    r.r_type % U8)]
        ELSE IF dest_symbol.section.kind = "Undefined"
        THEN IF r.target.name \in DOMAIN symbol_table
             THEN [ok |-> TRUE,
                   rel |-> ElfRelocation(r.section, r.offset, 0, 0,
                                         Add32(symbol_table[r.target.name], W32(r.addend)),
                                         r.r_type % U8)]
             ELSE failed
        ELSE failed

\* lines 277-283: the ELF relocations in the order the loops visit them: section
\* by section, the sections without a recorded offset skipped
RECURSIVE EnumerateRelocations(_)
EnumerateRelocations(i) ==
    IF i > Len(elf.sections) THEN << >>
    ELSE (IF SectionIndex(i) \in DOMAIN section_stats.section_offsets
          THEN SelectSeq(elf.relocations, LAMBDA r : r.section = SectionIndex(i))
          ELSE << >>)
         \o EnumerateRelocations(i + 1)

\* Mutant of CmpLessEq: the source offsets compared the wrong way round
CmpLessEq_OffsetDescending(a, b) ==
    \/ a.dest_module < b.dest_module
    \/ /\ a.dest_module = b.dest_module
       /\ \/ a.src_section < b.src_section
          \/ /\ a.src_section = b.src_section
             /\ a.src_offset >= b.src_offset

\* impl Ord for ElfRelocation: self.cmp(other) is Less or Equal
CmpLessEq(a, b) ==
    \/ a.dest_module < b.dest_module
    \/ /\ a.dest_module = b.dest_module
       /\ \/ a.src_section < b.src_section
          \/ /\ a.src_section = b.src_section
             /\ a.src_offset <= b.src_offset

\* Mutant of SortUnstable: the list left in the order of enumeration
SortUnstable_Unsorted(list) == { list }

\* line 327, sort_unstable: an ordering of the list by cmp; the order of the
\* elements that compare equal is not specified
SortUnstable(list) ==
    { [i \in 1..Len(list) |-> list[p[i]]] :
        p \in { q \in Permutations(1..Len(list)) :
                  \A i \in 1..(Len(list) - 1) : CmpLessEq(list[q[i]], list[q[i + 1]]) } }

ExtractRelocations ==
    /\ pc = "extract_relocations"
    /\ LET visited == EnumerateRelocations(1)
           pushed == [i \in 1..Len(visited) |-> ExtractRelocation(visited[i])]
       IN  IF \A i \in 1..Len(pushed) : pushed[i].ok
           THEN /\ relocations' \in SortUnstable([i \in 1..Len(pushed) |-> pushed[i].rel])
                /\ pc' = "write_relocations"
                /\ UNCHANGED << result, output >>
           ELSE /\ relocations' = relocations
                /\ Return("Err")
    /\ UNCHANGED << gci_vars, inputs, rel, section_pos, section_info_buffer, section_stats,
                    symbol_table, wr, relocation_stats >>

(***************************************************************************)
(* write_relocations                                                       *)
(***************************************************************************)
\* Mutant of CountImports: the first run not counted
CountImports_SwitchesOnly(list) ==
    Cardinality({ i \in 2..Len(list) : list[i].dest_module # list[i - 1].dest_module })

\* lines 363-371: the number of runs of equal dest_module
CountImports(list) ==
    Cardinality({ i \in 1..Len(list) : i = 1 \/ list[i].dest_module # list[i - 1].dest_module })

\* lines 363-388
BeginWriteRelocations ==
    /\ pc = "write_relocations"
    /\ LET import_count == CountImports(relocations)
           import_info_offset == NextMultipleOf(Len(rel), 8)
       IN  /\ rel' = rel \o Zeros(import_info_offset - Len(rel))
                         \o Zeros(ImportInfoSize * import_count)
           /\ wr' = [import_count |-> import_count,
                     import_info_offset |-> import_info_offset,
                     relocation_offset |-> import_info_offset + ImportInfoSize * import_count,
                     import_info_buffer |-> << >>,
                     current_module_id |-> None,
                     current_section_index |-> None,
                     current_offset |-> 0,
                     pos |-> 1]
    /\ pc' = "relocation_loop"
    /\ UNCHANGED << gci_vars, inputs, result, output, section_pos, section_info_buffer, section_stats,
                    symbol_table, relocations, relocation_stats >>

\* lines 392-396: the relocation is resolved early
ResolvedEarly(relocation) ==
    relocation.dest_module = module_id /\ relocation.type_ \in {PpcRel24, PpcRel32}

\* 0x03FFFFFC
Rel24Mask == << 1023, 65532 >>

\* lines 345-353: the patched word
PatchedWord(type_, data, delta) ==
    IF type_ = PpcRel24 THEN Or32(data, And32(delta, Rel24Mask)) ELSE delta

\* lines 337-341
StaticSrcOffset(relocation) ==
    section_stats.section_offsets[relocation.src_section] + relocation.src_offset
StaticDelta(relocation) ==
    Sub32(Add32(W32(section_stats.section_offsets[relocation.dest_section]),
                relocation.addend),
          W32(StaticSrcOffset(relocation)))

\* statically_apply_relocation panics: an unwrap of a section without a
\* recorded offset, or the 4 bytes are not inside the buffer
StaticPanics(buf, relocation) ==
    \/ relocation.src_section \notin DOMAIN section_stats.section_offsets
    \/ relocation.dest_section \notin DOMAIN section_stats.section_offsets
    \/ StaticSrcOffset(relocation) + 4 > Len(buf)

\* statically_apply_relocation: the buffer after it
statically_apply_relocation(buf, relocation) ==
    CopyInto(buf, StaticSrcOffset(relocation),
             BE32W(PatchedWord(relocation.type_,
                               ReadW32(buf, StaticSrcOffset(relocation)),
                               StaticDelta(relocation))))

\* Mutant of NeedsNop: a DolphinNop also for a delta of exactly 0xFFFF
NeedsNop_AtLimit(target_delta) == target_delta >= MAX_OFFSET_DELTA

\* line 440: the loop emits another DolphinNop
NeedsNop(target_delta) == target_delta > MAX_OFFSET_DELTA

\* lines 439-449: the number of DolphinNop records the loop emits
RECURSIVE NopCount(_)
NopCount(target_delta) ==
    IF NeedsNop(target_delta) THEN 1 + NopCount(target_delta - MAX_OFFSET_DELTA) ELSE 0

\* Mutant of SupportedRelocationType: PpcRel14 let through
SupportedRelocationType_WithRel14(type_) ==
    type_ \in (PpcNone..PpcRel14) \cup {DolphinNop, DolphinSection, DolphinEnd}

\* lines 451-467
SupportedRelocationType(type_) ==
    type_ \in { PpcNone, PpcAddr32, PpcAddr24, PpcAddr16, PpcAddr16Lo, PpcAddr16Hi,
                PpcAddr16Ha, PpcAddr14, PpcAddr14BrTaken, PpcAddr14BrNkTaken, PpcRel24,
                DolphinNop, DolphinSection, DolphinEnd }

EndRecord == Relocation(0, DolphinEnd, 0, << 0, 0 >>)
NopRecord == Relocation(MAX_OFFSET_DELTA, DolphinNop, 0, << 0, 0 >>)
SectionRecord(section) == Relocation(0, DolphinSection, section, << 0, 0 >>)

RECURSIVE Repeat(_, _)
Repeat(record, n) == IF n = 0 THEN << >> ELSE record \o Repeat(record, n - 1)

\* Mutant of ClosesPreviousGroup: a DolphinEnd at every module switch, the
\* first included
ClosesPreviousGroup_Always(current_module_id) == TRUE

\* Mutant of ImportStreamOffset: the offset counted from the stream's start
ImportStreamOffset_Relative(buf) == Len(buf) - wr.relocation_offset

\* line 419: the offset of an ImportInfo, rel.len() at the module switch
ImportStreamOffset(buf) == Len(buf)

\* line 405: a DolphinEnd closes the previous module group
ClosesPreviousGroup(current_module_id) == current_module_id.some

\* lines 390-483: one iteration of the loop over elf_relocations
WriteRelocation ==
    /\ pc = "relocation_loop"
    /\ wr.pos <= Len(relocations)
    /\ LET relocation == relocations[wr.pos]
           \* lines 402-422
           new_module == wr.current_module_id # Some(relocation.dest_module)
           rel1 == IF new_module /\ ClosesPreviousGroup(wr.current_module_id)
                   THEN rel \o EndRecord ELSE rel
           imports1 == IF new_module
                       THEN wr.import_info_buffer
                                \o ImportInfo(relocation.dest_module, ImportStreamOffset(rel1))
                       ELSE wr.import_info_buffer
           section1 == IF new_module THEN None ELSE wr.current_section_index
           \* lines 424-435
           new_section == section1 # Some(relocation.src_section)
           rel2 == IF new_section THEN rel1 \o SectionRecord(relocation.src_section) ELSE rel1
           offset2 == IF new_section THEN 0 ELSE wr.current_offset
           \* lines 437-449
           target_delta == relocation.src_offset - offset2
           nops == NopCount(target_delta)
           rel3 == rel2 \o Repeat(NopRecord, nops)
           \* lines 475-482
           rel4 == rel3 \o Relocation(target_delta - nops * MAX_OFFSET_DELTA, relocation.type_,
                                      relocation.dest_section, relocation.addend)
       IN  IF ResolvedEarly(relocation)
           THEN IF StaticPanics(rel, relocation)
                THEN /\ rel' = rel
                     /\ wr' = wr
                     /\ Return("panic")
                ELSE /\ rel' = statically_apply_relocation(rel, relocation)
                     /\ wr' = [wr EXCEPT !.pos = @ + 1]
                     /\ UNCHANGED << pc, result, output >>
           ELSE IF relocation.src_offset < offset2
           THEN \* line 439: the u32 subtraction overflows (a panic where overflow
                \* checks are on; the sort order keeps it from happening)
                /\ rel' = rel2
                /\ wr' = wr
                /\ Return("panic")
           ELSE IF ~SupportedRelocationType(relocation.type_)
           THEN /\ rel' = rel3
                /\ wr' = wr
                /\ Return("Err")
           ELSE /\ rel' = rel4
                /\ wr' = [wr EXCEPT !.import_info_buffer = imports1,
                                    !.current_module_id = Some(relocation.dest_module),
                                    !.current_section_index = Some(relocation.src_section),
                                    !.current_offset = relocation.src_offset,
                                    !.pos = @ + 1]
                /\ UNCHANGED << pc, result, output >>
    /\ UNCHANGED << gci_vars, inputs, section_pos, section_info_buffer, section_stats, symbol_table,
                    relocations, relocation_stats >>

\* Mutant of ImportInfoSizeOf: the size of the reserved region
ImportInfoSizeOf_Reserved(w) == w.import_count * ImportInfoSize

\* line 500: import_info_size
ImportInfoSizeOf(w) == Len(w.import_info_buffer)

\* lines 484-501: the trailing DolphinEnd, the import table copied over its
\* placeholder, the RelocationStats
FinishWriteRelocations ==
    /\ pc = "relocation_loop"
    /\ wr.pos > Len(relocations)
    /\ LET rel1 == rel \o EndRecord
       IN  IF wr.import_info_offset + Len(wr.import_info_buffer) > Len(rel1)
           THEN /\ rel' = rel1
                /\ relocation_stats' = relocation_stats
                /\ Return("panic")
           ELSE /\ rel' = CopyInto(rel1, wr.import_info_offset, wr.import_info_buffer)
                /\ relocation_stats' =
                       [relocations_offset |-> wr.relocation_offset,
                        import_info_offset |-> wr.import_info_offset,
                        import_info_size |-> ImportInfoSizeOf(wr)]
                /\ pc' = "write_module_header"
                /\ UNCHANGED << result, output >>
    /\ UNCHANGED << gci_vars, inputs, section_pos, section_info_buffer, section_stats, symbol_table,
                    relocations, wr >>


(***************************************************************************)
(* write_module_header, and the Ok(rel) of elf2rel                         *)
(***************************************************************************)
\* find_symbol
HasSymbol(name) == name \in DOMAIN elf.symbols

\* symbol.section_index(): Some only for a symbol defined in a section
HasSectionIndex(name) == elf.symbols[name].section.kind = "Section"

\* lines 516-536: the ModuleHeader as bytes
ModuleHeader ==
    LET prolog == elf.symbols[Name_prolog]
        epilog == elf.symbols[Name_epilog]
        unresolved == elf.symbols[Name_unresolved]
    IN  BE32(module_id) \o BE32(0) \o BE32(0)
        \o BE32(Len(elf.sections))
        \o BE32(section_stats.section_info_offset)
        \o BE32(0) \o BE32(0)
        \o BE32(rel_version)
        \o BE32(section_stats.total_bss_size)
        \o BE32(relocation_stats.relocations_offset)
        \o BE32(relocation_stats.import_info_offset)
        \o BE32(relocation_stats.import_info_size)
        \o << prolog.section.index % U8, epilog.section.index % U8,
              unresolved.section.index % U8, 0 >>
        \o BE32(prolog.address) \o BE32(epilog.address) \o BE32(unresolved.address)

\* lines 537-540
ModuleV2HeaderAddendum ==
    BE32(section_stats.max_align) \o BE32(section_stats.max_bss_align)

\* lines 541-543
ModuleV3HeaderAddendum == BE32(relocation_stats.relocations_offset)

\* Mutant of WithHeader: both addenda written whatever the version
WithHeader_AllAddenda(buf, version) ==
    CopyInto(CopyInto(CopyInto(buf, 0, ModuleHeader),
                      ModuleHeaderSize, ModuleV2HeaderAddendum),
             ModuleHeaderSize + ModuleV2HeaderAddendumSize, ModuleV3HeaderAddendum)

\* lines 544-554: the buffer with the header and the addenda of the version
WithHeader(buf, version) ==
    LET b1 == CopyInto(buf, 0, ModuleHeader)
        b2 == IF version >= V2 THEN CopyInto(b1, ModuleHeaderSize, ModuleV2HeaderAddendum)
              ELSE b1
    IN  IF version >= V3
        THEN CopyInto(b2, ModuleHeaderSize + ModuleV2HeaderAddendumSize,
                      ModuleV3HeaderAddendum)
        ELSE b2

WriteModuleHeader ==
    /\ pc = "write_module_header"
    /\ IF ~(HasSymbol(Name_prolog) /\ HasSymbol(Name_epilog) /\ HasSymbol(Name_unresolved))
       THEN /\ rel' = rel
            /\ Return("Err")
       ELSE IF ~(HasSectionIndex(Name_prolog) /\ HasSectionIndex(Name_epilog)
                 /\ HasSectionIndex(Name_unresolved))
       THEN /\ rel' = rel
            /\ Return("panic")
       ELSE /\ rel' = WithHeader(rel, rel_version)
            /\ Return("Ok")
    /\ UNCHANGED << gci_vars, inputs, section_pos, section_info_buffer, section_stats, symbol_table,
                    relocations, wr, relocation_stats >>

Next ==
    \/ ReserveHeader
    \/ BeginWriteSections
    \/ WriteSection
    \/ FillSectionInfo
    \/ ParseSymbolMap
    \/ ExtractRelocations
    \/ BeginWriteRelocations
    \/ WriteRelocation
    \/ FinishWriteRelocations
    \/ WriteModuleHeader

Spec == Init /\ [][Next]_vars


(***************************************************************************)
(* Reading a REL file back: the header fields, the SectionInfo table, the  *)
(* import table and the relocation stream of a byte sequence b.            *)
(***************************************************************************)
FileSectionCount(b) == ReadBE32(b, 12)
FileSectionInfoOffset(b) == ReadBE32(b, 16)
FileVersion(b) == ReadBE32(b, 28)
FileTotalBssSize(b) == ReadBE32(b, 32)
FileRelocationOffset(b) == ReadBE32(b, 36)
FileImportInfoOffset(b) == ReadBE32(b, 40)
FileImportInfoSize(b) == ReadBE32(b, 44)

\* The i-th SectionInfo of the table (i from 1)
FileSectionInfo(b, i) ==
    [offset |-> ReadBE32(b, FileSectionInfoOffset(b) + 8 * (i - 1)),
     size |-> ReadBE32(b, FileSectionInfoOffset(b) + 8 * (i - 1) + 4)]

\* The import table: import_info_size / 8 entries at import_info_offset
FileImports(b) ==
    [i \in 1..(FileImportInfoSize(b) \div 8) |->
        [id |-> ReadBE32(b, FileImportInfoOffset(b) + 8 * (i - 1)),
         offset |-> ReadBE32(b, FileImportInfoOffset(b) + 8 * (i - 1) + 4)]]

\* The relocation stream: the 8-byte records from relocation_offset to the end
FileStream(b) ==
    [i \in 1..((Len(b) - FileRelocationOffset(b)) \div 8) |->
        LET o == FileRelocationOffset(b) + 8 * (i - 1)
        IN  [offset |-> ReadBE16(b, o), type_ |-> b[o + 3], section |-> b[o + 4],
             addend |-> ReadW32(b, o + 4), at |-> o]]

IsEnd(r) == r.type_ = DolphinEnd /\ r.offset = 0 /\ r.section = 0 /\ r.addend = << 0, 0 >>
IsNop(r) == r.type_ = DolphinNop
IsSectionSwitch(r) == r.type_ = DolphinSection
IsMarker(r) == r.type_ \in {DolphinNop, DolphinSection, DolphinEnd}

\* The positions in stream st of the records that are no marker, in order
RECURSIVE RealPositions(_, _)
RealPositions(st, i) ==
    IF i > Len(st) THEN << >>
    ELSE (IF IsMarker(st[i]) THEN << >> ELSE << i >>) \o RealPositions(st, i + 1)

\* The collected relocations that static resolution leaves to the stream
LeftToStream(r) == ~(r.dest_module = module_id /\ r.type_ \in {PpcRel24, PpcRel32})
Emitted == SelectSeq(relocations, LeftToStream)

\* The module groups: the dest_module values of the emitted relocations
GroupCount == Cardinality({ Emitted[j].dest_module : j \in 1..Len(Emitted) })

EndCount(st) == Cardinality({ i \in 1..Len(st) : st[i].type_ = DolphinEnd })

Converted == result = "Ok"

(***************************************************************************)
(* C1 as stated: with k >= 1 module groups the stream holds k + 1          *)
(* DolphinEnd records and ends with two consecutive DolphinEnd records;    *)
(* with k = 0 it is exactly one DolphinEnd.                                *)
(***************************************************************************)
C1_TrailingEndAfterLastGroup ==
    Converted =>
        LET st == FileStream(output)
            n == Len(st)
        IN  IF GroupCount = 0 THEN n = 1 /\ IsEnd(st[1])
            ELSE /\ EndCount(st) = GroupCount + 1
                 /\ n >= 2 /\ IsEnd(st[n]) /\ IsEnd(st[n - 1])

(***************************************************************************)
(* C1 amended: with k >= 1 module groups the stream holds exactly k        *)
(* DolphinEnd records, one closing each group: the stream starts with a    *)
(* DolphinSection, every DolphinEnd but the last is followed by the        *)
(* DolphinSection that opens the next group, the records of two emitted    *)
(* relocations are separated by a DolphinEnd exactly when their            *)
(* dest_module differs, and the last record is the DolphinEnd of the last  *)
(* group, with no DolphinEnd before it.  With k = 0 the stream is exactly  *)
(* one DolphinEnd.                                                         *)
(***************************************************************************)
C1_OneEndPerGroup ==
    Converted =>
        LET st == FileStream(output)
            n == Len(st)
            real == RealPositions(st, 1)
        IN  /\ Len(real) = Len(Emitted)
            /\ IF GroupCount = 0 THEN n = 1 /\ IsEnd(st[1])
               ELSE /\ EndCount(st) = GroupCount
                    /\ n >= 2 /\ IsEnd(st[n]) /\ ~IsEnd(st[n - 1])
                    /\ IsSectionSwitch(st[1])
                    /\ \A i \in 1..(n - 1) :
                          st[i].type_ = DolphinEnd => IsEnd(st[i]) /\ IsSectionSwitch(st[i + 1])
                    /\ \A j \in 1..(Len(real) - 1) :
                          (\E i \in real[j]..real[j + 1] : st[i].type_ = DolphinEnd)
                              <=> Emitted[j].dest_module # Emitted[j + 1].dest_module

\* A conversion whose stream holds two module groups
C1_Witness == Converted /\ GroupCount = 2

(***************************************************************************)
(* C2 as stated: import_info_size is 8 times the number of runs of equal   *)
(* dest_module in the whole sorted list, statically resolved relocations   *)
(* included.                                                               *)
(***************************************************************************)
ModuleRuns ==
    Cardinality({ i \in 1..Len(relocations) :
                    i = 1 \/ relocations[i].dest_module # relocations[i - 1].dest_module })

C2_ImportSizeCountsEveryRun ==
    (pc = "write_module_header" \/ Converted) =>
        relocation_stats.import_info_size = ModuleRuns * 8

(***************************************************************************)
(* C2 amended: import_info_size is 8 times the number of module groups     *)
(* emitted in the stream (the runs with at least one relocation that is    *)
(* not statically resolved); the region reserved between                   *)
(* import_info_offset and relocation_offset holds 8 bytes per run of the   *)
(* whole list, so import_info_size never exceeds it, and the reserved      *)
(* bytes import_info_size does not cover are zero.                         *)
(***************************************************************************)
C2_ImportSizeCountsEmittedGroups ==
    /\ (pc = "write_module_header" \/ Converted) =>
          /\ relocation_stats.import_info_size = GroupCount * 8
          /\ relocation_stats.relocations_offset - relocation_stats.import_info_offset
                = ModuleRuns * 8
          /\ GroupCount <= ModuleRuns
    /\ Converted =>
          /\ FileImportInfoSize(output) = GroupCount * 8
          /\ FileRelocationOffset(output) - FileImportInfoOffset(output) = ModuleRuns * 8
          /\ \A o \in (FileImportInfoOffset(output) + FileImportInfoSize(output))
                        ..(FileRelocationOffset(output) - 1) : output[o + 1] = 0

\* A conversion in which a whole run was resolved statically and another
\* was emitted: a slot is reserved and left unused
C2_Witness == Converted /\ GroupCount = 1 /\ ModuleRuns = 2

(***************************************************************************)
(* C3 as stated: elf2rel never panics; every failure is an error value.    *)
(***************************************************************************)
C3_NeverPanics == result # "panic"


(***************************************************************************)
(* C4 as stated: after conversion, the word of every statically resolved   *)
(* PpcRel24 relocation has its bits under 0x03FFFFFC replaced by           *)
(* delta & 0x03FFFFFC, whatever the word held before, its other bits are   *)
(* unchanged, and the stream holds no record for the relocation.           *)
(***************************************************************************)
\* The file offset where the bytes of the section of index idx begin, read
\* from the SectionInfo table (the low bit is the text flag)
FileSectionStart(b, idx) ==
    FileSectionInfo(b, idx + 1).offset - (FileSectionInfo(b, idx + 1).offset % 2)

\* 0xFC000003
NotRel24Mask == << 64512, 3 >>

C4_Rel24FieldReplaced ==
    Converted =>
        /\ Len(RealPositions(FileStream(output), 1)) = Len(Emitted)
        /\ \A j \in 1..Len(relocations) :
              LET r == relocations[j]
                  at == FileSectionStart(output, r.src_section) + r.src_offset
                  delta == Sub32(Add32(W32(FileSectionStart(output, r.dest_section)), r.addend),
                                 W32(at))
                  old == ReadW32(elf.sections[r.src_section + 1].data, r.src_offset)
                  new == ReadW32(output, at)
              IN  (r.dest_module = module_id /\ r.type_ = PpcRel24) =>
                      /\ And32(new, Rel24Mask) = And32(delta, Rel24Mask)
                      /\ And32(new, NotRel24Mask) = And32(old, NotRel24Mask)

(***************************************************************************)
(* C5 as stated: a data line <ws>deadbeef<ws>:<ws>foo<ws>, alone or after  *)
(* a comment or blank line, puts the key foo, with no whitespace around    *)
(* it, into the map with the address 0xdeadbeef.                           *)
(***************************************************************************)
FooLines ==
    { first \o b1 \o << "d", "e", "a", "d", "b", "e", "e", "f" >> \o b2 \o << ":" >> \o b3
            \o NameFoo \o b4 :
        first \in { << >>, NameComment, << " ", "\n" >> },
        b1 \in OuterBlanks, b4 \in OuterBlanks, b2 \in InnerBlanks, b3 \in InnerBlanks }

SymbolMapParsed ==
    pc \notin {"elf2rel", "write_sections", "section_loop", "parse_symbol_map"}

C5_NameTrimmed ==
    (SymbolMapParsed /\ symbol_map \in FooLines) =>
        /\ DOMAIN symbol_table = { NameFoo }
        /\ symbol_table[NameFoo] = << 57005, 48879 >>


(***************************************************************************)
(* C6: every emitted relocation, with gap g to the previous emitted        *)
(* relocation of its (module group, source section) run (its src_offset    *)
(* at the start of a run), is preceded by exactly k DolphinNop records of  *)
(* offset 0xFFFF, k the least natural with g - k * 0xFFFF <= 0xFFFF, and   *)
(* its record holds the offset g - k * 0xFFFF (<= 0xFFFF), its type, its   *)
(* dest_section and its addend; the offsets of the records since the last  *)
(* DolphinSection add up to its src_offset.                                *)
(***************************************************************************)
LeastNops(g) ==
    CHOOSE k \in 0..(g \div MAX_OFFSET_DELTA) :
        /\ g - k * MAX_OFFSET_DELTA <= MAX_OFFSET_DELTA
        /\ \A m \in 0..(k - 1) : g - m * MAX_OFFSET_DELTA > MAX_OFFSET_DELTA

\* The number of consecutive DolphinNop records right before position i
NopsBefore(st, i) ==
    Cardinality({ m \in 1..(i - 1) : \A q \in m..(i - 1) : IsNop(st[q]) })

\* The position of the last DolphinSection record before position i
LastSectionSwitch(st, i) ==
    CHOOSE m \in 1..(i - 1) :
        IsSectionSwitch(st[m]) /\ \A q \in (m + 1)..(i - 1) : ~IsSectionSwitch(st[q])

RECURSIVE OffsetSum(_, _, _)
OffsetSum(st, from, to) ==
    IF from > to THEN 0 ELSE st[from].offset + OffsetSum(st, from + 1, to)

C6_NopPadding ==
    Converted =>
        LET st == FileStream(output)
            real == RealPositions(st, 1)
        IN  /\ Len(real) = Len(Emitted)
            /\ \A i \in 1..Len(st) :
                  IsNop(st[i]) => /\ st[i].offset = MAX_OFFSET_DELTA
                                  /\ st[i].section = 0 /\ st[i].addend = << 0, 0 >>
                                  /\ i < Len(st) /\ (IsNop(st[i + 1]) \/ ~IsMarker(st[i + 1]))
            /\ \A j \in 1..Len(real) :
                  LET i == real[j]
                      e == Emitted[j]
                      same_run == /\ j > 1
                                  /\ Emitted[j - 1].dest_module = e.dest_module
                                  /\ Emitted[j - 1].src_section = e.src_section
                      g == e.src_offset - (IF same_run THEN Emitted[j - 1].src_offset ELSE 0)
                      k == LeastNops(g)
                  IN  /\ g >= 0
                      /\ NopsBefore(st, i) = k
                      /\ st[i].offset = g - k * MAX_OFFSET_DELTA
                      /\ st[i].offset <= MAX_OFFSET_DELTA
                      /\ st[i].type_ = e.type_
                      /\ st[i].section = e.dest_section
                      /\ st[i].addend = e.addend
                      /\ \E m \in 1..(i - 1) : IsSectionSwitch(st[m])
                      /\ st[LastSectionSwitch(st, i)].section = e.src_section
                      /\ st[LastSectionSwitch(st, i)].offset = 0
                      /\ OffsetSum(st, LastSectionSwitch(st, i), i) = e.src_offset
                      /\ same_run <=> (j > 1 /\ LastSectionSwitch(st, i) < real[j - 1])

\* A gap of 0x20000: two DolphinNop records, then a record of offset 2
C6_Witness ==
    /\ Converted
    /\ \E i \in 3..Len(FileStream(output)) :
          LET st == FileStream(output)
          IN  /\ ~IsMarker(st[i]) /\ st[i].offset = 2
              /\ IsNop(st[i - 1]) /\ IsNop(st[i - 2]) /\ ~IsNop(st[i - 3])

(***************************************************************************)
(* C7: after a successful conversion the import table holds one ImportInfo *)
(* per module group of the stream, in stream order, with the group's       *)
(* dest_module as id and the file offset of the group's first record, a    *)
(* DolphinSection, as offset; relocation_offset is the file offset of the  *)
(* first stream record (the first ImportInfo's offset when there is a      *)
(* group); import_info_offset is a multiple of 8.                          *)
(***************************************************************************)
EndsBefore(st, i) == Cardinality({ m \in 1..(i - 1) : st[m].type_ = DolphinEnd })

\* The position of the first record of the g-th group
GroupStart(st, g) ==
    CHOOSE i \in 1..Len(st) :
        EndsBefore(st, i) = g - 1 /\ (i = 1 \/ st[i - 1].type_ = DolphinEnd)

\* Where the bytes write_sections wrote end: after the SectionInfo table or
\* after the data of the last section that has any
FileDataEnd(b) ==
    LET ends == { FileSectionInfoOffset(b) + 8 * FileSectionCount(b) } \cup
                { FileSectionStart(b, i - 1) + FileSectionInfo(b, i).size :
                    i \in { n \in 1..FileSectionCount(b) : FileSectionInfo(b, n).offset # 0 } }
    IN  CHOOSE e \in ends : \A x \in ends : x <= e

C7_ImportTable ==
    Converted =>
        LET b == output
            st == FileStream(b)
            real == RealPositions(st, 1)
            imports == FileImports(b)
        IN  /\ FileImportInfoOffset(b) % 8 = 0
            /\ FileImportInfoOffset(b) = NextMultipleOf(FileDataEnd(b), 8)
            /\ FileRelocationOffset(b) = FileImportInfoOffset(b) + 8 * ModuleRuns
            /\ (Len(b) - FileRelocationOffset(b)) % 8 = 0
            /\ Len(st) >= 1
            /\ IsSectionSwitch(st[1]) \/ (IsEnd(st[1]) /\ Len(st) = 1)
            /\ Len(imports) = GroupCount
            /\ Len(real) = Len(Emitted)
            /\ \A g \in 1..Len(imports) :
                  /\ imports[g].offset = st[GroupStart(st, g)].at
                  /\ IsSectionSwitch(st[GroupStart(st, g)])
                  /\ \E j \in 1..Len(real) : EndsBefore(st, real[j]) = g - 1
                  /\ \A j \in 1..Len(real) :
                        EndsBefore(st, real[j]) = g - 1 => Emitted[j].dest_module = imports[g].id
            /\ GroupCount >= 1 => imports[1].offset = FileRelocationOffset(b)

\* An import table of two entries, the second the group of this module
C7_Witness ==
    /\ Converted
    /\ Len(FileImports(output)) = 2
    /\ FileImports(output)[1].id = 0
    /\ FileImports(output)[2].id = 4096
    /\ FileImports(output)[2].offset > FileImports(output)[1].offset


(***************************************************************************)
(* The section rules of the specification, for C8, C9 and C10.             *)
(***************************************************************************)
\* The name is a valid REL section name, or one followed by "."
IncludedName(name) ==
    \E cand \in VALID_REL_SECTIONS :
        \/ name = cand
        \/ /\ Len(name) > Len(cand)
           /\ \A c \in 1..Len(cand) : name[c] = cand[c]
           /\ name[Len(cand) + 1] = "."

\* The positions of the sections whose bytes go to the file, of the included
\* BSS sections
DataPositions == { i \in 1..Len(elf.sections) :
                     IncludedName(elf.sections[i].name) /\ ~IsBss(elf.sections[i].kind) }
BssPositions == { i \in 1..Len(elf.sections) :
                    IncludedName(elf.sections[i].name) /\ IsBss(elf.sections[i].kind) }

SetMax(S) == CHOOSE x \in S : \A y \in S : y <= x

RECURSIVE SizeSum(_)
SizeSum(S) ==
    IF S = {} THEN 0
    ELSE LET i == CHOOSE x \in S : TRUE IN elf.sections[i].size + SizeSum(S \ {i})

\* Where the bytes written before those of the section at position i end:
\* the end of the SectionInfo table, or of the data section before it
PrevEnd(i) ==
    LET earlier == { j \in DataPositions : j < i }
    IN  IF earlier = {}
        THEN section_stats.section_info_offset + 8 * Len(elf.sections)
        ELSE section_stats.section_offsets[SectionIndex(SetMax(earlier))]
                + elf.sections[SetMax(earlier)].size

SectionsStarted == pc \notin {"elf2rel", "write_sections"}

(***************************************************************************)
(* C8: the bytes of every included non-BSS section begin at a file offset  *)
(* that is a multiple of max(align, 2), whatever was written before; the   *)
(* padding before them is zero bytes, fewer than max(align, 2).            *)
(***************************************************************************)
C8_SectionAlignment ==
    SectionsStarted =>
        \A i \in { p \in DataPositions : p < section_pos } :
            LET a == IF elf.sections[i].align >= 2 THEN elf.sections[i].align ELSE 2
                start == section_stats.section_offsets[SectionIndex(i)]
                prev == PrevEnd(i)
            IN  /\ SectionIndex(i) \in DOMAIN section_stats.section_offsets
                /\ start % a = 0
                /\ prev <= start
                /\ start - prev < a
                /\ \A o \in prev..(start - 1) : rel[o + 1] = 0
                /\ start + elf.sections[i].size <= Len(rel)
                /\ Converted => /\ FileSectionStart(output, SectionIndex(i)) = start
                                /\ \A o \in prev..(start - 1) : output[o + 1] = 0

\* A section of alignment 8 that needed padding, in a finished conversion
C8_Witness ==
    /\ Converted
    /\ \E i \in DataPositions :
          /\ elf.sections[i].align = 8
          /\ section_stats.section_offsets[SectionIndex(i)] > PrevEnd(i)

(***************************************************************************)
(* C9: the SectionInfo table holds one entry per ELF section, in order:    *)
(* all zero for an excluded section, {0, size} for an included BSS section *)
(* (which adds no bytes to the file), {start | 1 iff text, size} for an    *)
(* included non-BSS section; total_bss_size is the sum of the included     *)
(* BSS sizes, section_count the number of entries.                         *)
(***************************************************************************)
C9_SectionInfoTable ==
    /\ pc = "parse_symbol_map" =>
          \* write_sections has returned: the file holds the header, the table
          \* and the padded data of the non-BSS sections, nothing else
          /\ Len(rel) = PrevEnd(Len(elf.sections) + 1)
          /\ \A i \in DataPositions :
                LET start == section_stats.section_offsets[SectionIndex(i)]
                IN  SubSeq(rel, start + 1, start + elf.sections[i].size) = elf.sections[i].data
    /\ Converted =>
          /\ FileSectionCount(output) = Len(elf.sections)
          /\ FileSectionInfoOffset(output) = section_stats.section_info_offset
          /\ FileTotalBssSize(output) = SizeSum(BssPositions)
          /\ \A i \in 1..Len(elf.sections) :
                LET e == FileSectionInfo(output, i)
                    section == elf.sections[i]
                IN  IF i \in BssPositions
                    THEN e = [offset |-> 0, size |-> section.size]
                    ELSE IF i \in DataPositions
                    THEN LET start == section_stats.section_offsets[SectionIndex(i)]
                         IN  /\ start % 2 = 0
                             /\ start >= FileSectionInfoOffset(output) + 8 * Len(elf.sections)
                             /\ e.size = section.size
                             /\ e.offset = start + (IF section.kind = "Text" THEN 1 ELSE 0)
                    ELSE e = [offset |-> 0, size |-> 0]

\* A converted ELF with a text section, a BSS section and an excluded one
C9_Witness ==
    /\ Converted
    /\ BssPositions # {}
    /\ \E i \in DataPositions :
          elf.sections[i].kind = "Text" /\ FileSectionInfo(output, i).offset % 2 = 1
    /\ \E i \in 1..Len(elf.sections) : ~IncludedName(elf.sections[i].name)

(***************************************************************************)
(* C10: the SectionInfo table starts at 0x40 (V1), 0x48 (V2) or 0x4C (V3); *)
(* the version field holds 1, 2 or 3; for V2 and V3 bytes 0x40..0x48 hold  *)
(* max_align and max_bss_align, both >= 2; for V3 bytes 0x48..0x4C hold    *)
(* fixed_data_size = relocation_offset; and writing the header changes no  *)
(* byte at or after section_info_offset.                                   *)
(***************************************************************************)
ExpectedSectionInfoOffset ==
    CASE rel_version = V1 -> 64
      [] rel_version = V2 -> 72
      [] rel_version = V3 -> 76

HeaderPrefix ==
    Converted =>
        /\ FileSectionInfoOffset(output) = ExpectedSectionInfoOffset
        /\ FileVersion(output) = rel_version
        /\ rel_version \in {V2, V3} =>
              /\ ReadBE32(output, 64) = SetMax({2} \cup { elf.sections[i].align : i \in DataPositions })
              /\ ReadBE32(output, 68) = SetMax({2} \cup { elf.sections[i].align : i \in BssPositions })
              /\ ReadBE32(output, 64) >= 2
              /\ ReadBE32(output, 68) >= 2
        /\ rel_version = V3 => ReadBE32(output, 72) = FileRelocationOffset(output)

HeaderWriteFrame ==
    pc = "write_module_header" =>
        /\ Len(rel') = Len(rel)
        /\ \A o \in ExpectedSectionInfoOffset..(Len(rel) - 1) : rel'[o + 1] = rel[o + 1]

C10_HeaderPrefix == [] HeaderPrefix /\ [][HeaderWriteFrame]_vars

\* A V3 header whose alignment maxima both exceed the minimum
C10_Witness ==
    /\ Converted
    /\ rel_version = V3
    /\ ReadBE32(output, 64) = 8
    /\ ReadBE32(output, 68) = 16


(***************************************************************************)
(* C11 as stated: for every module_id, 0 included, a relocation against an *)
(* undefined symbol is collected with dest_module = 0, dest_section = 0    *)
(* and addend = symbol_map[name] + elf_addend (mod 2^32); it is never      *)
(* handed to static resolution (the conversion does not end inside         *)
(* statically_apply_relocation on it, and the section bytes it points at   *)
(* are left as the ELF has them unless a relocation against a symbol of    *)
(* this ELF covers the same place); in a finished conversion it is a       *)
(* record of the module group whose ImportInfo has id 0.                   *)
(***************************************************************************)
External(r) ==
    r.target.kind = "Symbol" /\ elf.symbols[r.target.name].section.kind = "Undefined"

\* extract_relocations has returned its list
Collected ==
    \/ pc \in {"write_relocations", "relocation_loop", "write_module_header"}
    \/ pc = "returned" /\ wr.pos >= 1

C11_ExternalNeverStatic ==
    Collected =>
        LET visited == EnumerateRelocations(1)
        IN  \A i \in 1..Len(visited) :
                LET r == visited[i]
                    e == [src_section |-> r.section, src_offset |-> r.offset,
                          dest_module |-> 0, dest_section |-> 0,
                          addend |-> Add32(symbol_table[r.target.name], W32(r.addend)),
                          type_ |-> r.r_type % U8]
                    alone == \A k \in 1..Len(visited) :
                                 (visited[k].section = r.section /\ visited[k].offset = r.offset)
                                     => External(visited[k])
                IN  External(r) =>
                        /\ \E j \in 1..Len(relocations) : relocations[j] = e
                        /\ ~(/\ result = "panic"
                             /\ wr.pos <= Len(relocations)
                             /\ relocations[wr.pos] = e)
                        /\ Converted =>
                              LET st == FileStream(output)
                                  at == FileSectionStart(output, r.section) + r.offset
                              IN  /\ \E k \in 2..Len(st) :
                                        /\ st[k].type_ = e.type_
                                        /\ st[k].section = 0
                                        /\ st[k].addend = e.addend
                                        /\ FileImports(output)[EndsBefore(st, k) + 1].id = 0
                                        /\ st[LastSectionSwitch(st, k)].section = r.section
                                        /\ OffsetSum(st, LastSectionSwitch(st, k), k) = r.offset
                                  /\ (alone /\ r.offset + 4 <= elf.sections[r.section + 1].size) =>
                                        SubSeq(output, at + 1, at + 4)
                                            = SubSeq(elf.sections[r.section + 1].data,
                                                     r.offset + 1, r.offset + 4)


(***************************************************************************)
(* The sort of extract_relocations, for C12.                               *)
(***************************************************************************)
\* (dest_module, src_section, src_offset) of a before that of b
KeyBefore(a, b) ==
    \/ a.dest_module < b.dest_module
    \/ a.dest_module = b.dest_module /\ a.src_section < b.src_section
    \/ /\ a.dest_module = b.dest_module /\ a.src_section = b.src_section
       /\ a.src_offset < b.src_offset

SameKey(a, b) == ~KeyBefore(a, b) /\ ~KeyBefore(b, a)

\* The relocations in the order extract_relocations pushed them
Pushed ==
    LET visited == EnumerateRelocations(1)
    IN  [i \in 1..Len(visited) |-> ExtractRelocation(visited[i]).rel]

\* The stable sort of a list: by key, equal keys in the order of the list
StableSort(list) ==
    LET p == CHOOSE q \in Permutations(1..Len(list)) :
                 \A i, j \in 1..Len(list) :
                     i < j => \/ KeyBefore(list[q[i]], list[q[j]])
                              \/ SameKey(list[q[i]], list[q[j]]) /\ q[i] < q[j]
    IN  [i \in 1..Len(list) |-> list[p[i]]]

(***************************************************************************)
(* C12 as stated: the list extract_relocations returns is the stable sort  *)
(* of the enumerated relocations by (dest_module, src_section_idx,         *)
(* src_offset), and sorting it again changes nothing.                      *)
(***************************************************************************)
C12_SortStable ==
    pc = "write_relocations" =>
        /\ relocations = StableSort(Pushed)
        /\ \A again \in SortUnstable(relocations) : again = relocations

(***************************************************************************)
(* C12 amended: the list extract_relocations returns holds exactly the     *)
(* enumerated relocations, ordered by (dest_module, src_section_idx,       *)
(* src_offset) ascending; the order of relocations with equal keys is not  *)
(* specified, so the list is the stable sort when the keys are pairwise    *)
(* distinct, and sorting it again keeps the sequence of keys.              *)
(***************************************************************************)
C12_SortedByKey ==
    pc = "write_relocations" =>
        LET n == Len(relocations)
            pushed == Pushed
        IN  /\ n = Len(pushed)
            /\ \A i \in 1..n :
                  Cardinality({ j \in 1..n : relocations[j] = pushed[i] })
                      = Cardinality({ j \in 1..n : pushed[j] = pushed[i] })
            /\ \A i, j \in 1..n : i < j => ~KeyBefore(relocations[j], relocations[i])
            /\ (\A i, j \in 1..n : i # j => ~SameKey(pushed[i], pushed[j]))
                  => relocations = StableSort(pushed)
            /\ \A again \in SortUnstable(relocations) :
                  /\ Len(again) = n
                  /\ \A i \in 1..n : SameKey(again[i], relocations[i])

\* Two different relocations of one key, returned in the order opposite to
\* their enumeration, after a relocation of a smaller key enumerated last
C12_Witness ==
    /\ pc = "write_relocations"
    /\ Len(relocations) = 3
    /\ KeyBefore(relocations[1], relocations[2])
    /\ SameKey(relocations[2], relocations[3])
    /\ relocations[2] # relocations[3]
    /\ relocations # StableSort(Pushed)
    /\ relocations[1] = Pushed[3]


(***************************************************************************)
(* C13: a relocation that reaches the type guard of the stream emission    *)
(* (it is not resolved statically) with type PpcRel14 or PpcRel32 ends the *)
(* conversion with an error and no output bytes, whatever records the      *)
(* buffer already holds; one with a type of the whitelist passes the       *)
(* guard, so a conversion fails inside the relocation loop with an error   *)
(* only on a relocation left to the stream whose type is outside the       *)
(* whitelist, and a finished conversion left only whitelisted types to     *)
(* the stream.                                                             *)
(***************************************************************************)
Whitelist == (PpcNone..PpcAddr14BrNkTaken) \cup {PpcRel24, DolphinNop, DolphinSection, DolphinEnd}

TypeGuardStep ==
    (pc = "relocation_loop" /\ wr.pos <= Len(relocations)) =>
        LET r == relocations[wr.pos]
        IN  /\ (LeftToStream(r) /\ r.type_ \in {PpcRel14, PpcRel32}) =>
                  pc' = "returned" /\ result' = "Err" /\ output' = << >>
            /\ (LeftToStream(r) /\ r.type_ \in Whitelist) =>
                  /\ pc' = "relocation_loop" /\ result' = "running"
                  /\ wr'.pos = wr.pos + 1
                  /\ Len(rel') >= Len(rel) + RelocationSize
            /\ ~LeftToStream(r) => result' # "Err"

FailedInRelocationLoop ==
    pc = "returned" /\ result = "Err" /\ wr.pos >= 1 /\ wr.pos <= Len(relocations)

TypeGuardOutcome ==
    /\ result = "Err" => output = << >>
    /\ FailedInRelocationLoop =>
          /\ LeftToStream(relocations[wr.pos])
          /\ relocations[wr.pos].type_ \notin Whitelist
    /\ Converted =>
          \A j \in 1..Len(relocations) :
              LeftToStream(relocations[j]) => relocations[j].type_ \in Whitelist

C13_TypeGuard == [] TypeGuardOutcome /\ [][TypeGuardStep]_vars

\* The conversion failed on a PpcRel14 relocation after the records of an
\* earlier relocation were appended to the buffer
C13_Witness ==
    /\ FailedInRelocationLoop
    /\ wr.pos >= 2
    /\ relocations[wr.pos].type_ = PpcRel14
    /\ relocations[wr.pos].dest_module = 0
    /\ Len(rel) >= wr.relocation_offset + 2 * RelocationSize
    /\ output = << >>


(***************************************************************************)
(* C15: whenever write_relocations computes target_delta = src_offset -    *)
(* current_offset, current_offset <= src_offset: current_offset is 0 or    *)
(* the src_offset of an earlier emitted relocation of the current module   *)
(* group and source section, the offset the subtraction uses is 0 after a  *)
(* module or section switch, and the conversion never ends in the          *)
(* overflow of that subtraction.                                           *)
(***************************************************************************)
\* current_offset as line 439 reads it for relocation r: 0 after the switch
\* of lines 402-435
OffsetAtDelta(r) ==
    IF /\ wr.current_module_id = Some(r.dest_module)
       /\ wr.current_section_index = Some(r.src_section)
    THEN wr.current_offset ELSE 0

C15_NoUnderflow ==
    /\ pc = "relocation_loop" =>
          /\ \/ wr.current_offset = 0
             \/ \E j \in 1..(wr.pos - 1) :
                   /\ LeftToStream(relocations[j])
                   /\ relocations[j].src_offset = wr.current_offset
                   /\ Some(relocations[j].dest_module) = wr.current_module_id
                   /\ Some(relocations[j].src_section) = wr.current_section_index
          /\ wr.pos <= Len(relocations) =>
                (LeftToStream(relocations[wr.pos]) =>
                    OffsetAtDelta(relocations[wr.pos]) <= relocations[wr.pos].src_offset)
    /\ ~(/\ result = "panic"
         /\ wr.pos >= 1 /\ wr.pos <= Len(relocations)
         /\ LeftToStream(relocations[wr.pos]))

\* The delta is about to be computed against a current_offset above 0, a
\* statically resolved relocation skipped since it was set
C15_Witness ==
    /\ pc = "relocation_loop"
    /\ wr.pos = 3 /\ Len(relocations) = 3
    /\ ~LeftToStream(relocations[2])
    /\ LeftToStream(relocations[3])
    /\ wr.current_offset > 0
    /\ OffsetAtDelta(relocations[3]) = wr.current_offset
    /\ relocations[3].src_offset > wr.current_offset

(***************************************************************************)
(* C16: the ImportInfo entries accumulated during the stream emission      *)
(* never exceed the import_count slots reserved before it, so the final    *)
(* copy of the import buffer stays inside [import_info_offset,             *)
(* relocation_offset): it does not fail, and every byte of the output      *)
(* outside that region (the header placeholder, the sections, the stream)  *)
(* is as it was before the copy.                                           *)
(***************************************************************************)
ImportsFitReserved ==
    pc \in {"relocation_loop", "write_module_header"} =>
        /\ wr.relocation_offset = wr.import_info_offset + 8 * wr.import_count
        /\ Len(wr.import_info_buffer) <= 8 * wr.import_count
        /\ wr.relocation_offset <= Len(rel)

ImportCopyFrame ==
    (pc = "relocation_loop" /\ wr.pos > Len(relocations)) =>
        /\ result' = "running" /\ pc' = "write_module_header"
        /\ Len(rel') = Len(rel) + 8
        /\ \A o \in 0..(Len(rel) - 1) :
              IF o >= wr.import_info_offset /\ o < wr.relocation_offset
              THEN rel'[o + 1] = IF o - wr.import_info_offset < Len(wr.import_info_buffer)
                                 THEN wr.import_info_buffer[o - wr.import_info_offset + 1]
                                 ELSE rel[o + 1]
              ELSE rel'[o + 1] = rel[o + 1]

C16_ImportCopyInsideReserved == [] ImportsFitReserved /\ [][ImportCopyFrame]_vars

\* Two ImportInfo entries copied into two reserved slots
C16_Witness ==
    /\ pc = "write_module_header"
    /\ wr.import_count = 2
    /\ Len(wr.import_info_buffer) = 16
    /\ SubSeq(rel, wr.import_info_offset + 1, wr.relocation_offset) = wr.import_info_buffer


(***************************************************************************)
(* gcipack (src/src/gcipack.rs): a payload packed into a GameCube memory   *)
(* card GCI file.  A string is the sequence of its code points; a byte     *)
(* vector is the sequence of its bytes.                                    *)
(***************************************************************************)
MAX_FILE_NAME_SIZE == 32
MAX_TITLE_SIZE == 32
MAX_DESCRIPTION_SIZE == 32
BANNER_SIZE == 6144
ICON_SIZE == 2048
FILE_HEADER_SIZE == 512
GAME_CODE_SIZE == 6
BLOCK_SIZE == 8192
FILE_HEADER_PADDING_SIZE == FILE_HEADER_SIZE - MAX_TITLE_SIZE - MAX_DESCRIPTION_SIZE - 4

\* size_of::<GciHeader>(), size_of::<GciFileMetadata>()
GciHeaderSize == 4 + 2 + 1 + 1 + MAX_FILE_NAME_SIZE + 4 + 4 + 2 + 2 + 1 + 1 + 2 + 2 + 2 + 4
GciFileMetadataSize ==
    BANNER_SIZE + ICON_SIZE + MAX_TITLE_SIZE + MAX_DESCRIPTION_SIZE + 4
        + FILE_HEADER_PADDING_SIZE

\* 2000-01-01 in seconds since the Unix epoch
Y2K == 946684800

Fill(byte, n) == [i \in 1..n |-> byte]

\* str::is_ascii, str::len (the UTF-8 length), str::chars().count()
IsAscii(s) == \A i \in 1..Len(s) : s[i] < 128
Utf8Len(c) == IF c < 128 THEN 1 ELSE IF c < 2048 THEN 2 ELSE IF c < 65536 THEN 3 ELSE 4
RECURSIVE StrLen(_)
StrLen(s) == IF s = << >> THEN 0 ELSE Utf8Len(Head(s)) + StrLen(Tail(s))
CharsCount(s) == Len(s)

GciOk == [ok |-> TRUE, error |-> "", kind |-> ""]
GciErr(error, kind) == [ok |-> FALSE, error |-> error, kind |-> kind]

validate_str(s, kind, max_size) ==
    IF ~IsAscii(s) THEN GciErr("StringNonAscii", kind)
    ELSE IF StrLen(s) > max_size THEN GciErr("StringInvalidSize", kind)
    ELSE GciOk

\* validate: the first check that fails
validate(a) ==
    LET checks == << validate_str(a.file_name, "FileName", MAX_FILE_NAME_SIZE),
                     validate_str(a.title, "Title", MAX_TITLE_SIZE),
                     validate_str(a.description, "Description", MAX_DESCRIPTION_SIZE),
                     validate_str(a.gamecode, "GameCode", GAME_CODE_SIZE),
                     IF Len(a.banner) # BANNER_SIZE
                     THEN GciErr("ImageInvalidSize", "Banner") ELSE GciOk,
                     IF Len(a.icon) # ICON_SIZE
                     THEN GciErr("ImageInvalidSize", "Icon") ELSE GciOk >>
        failed == { i \in 1..Len(checks) : ~checks[i].ok }
    IN  IF CharsCount(a.gamecode) # GAME_CODE_SIZE THEN GciErr("StringInvalidSize", "GameCode")
        ELSE IF failed = {} THEN GciOk
        ELSE checks[CHOOSE i \in failed : \A j \in failed : i <= j]

\* usize::div_ceil
DivCeil(a, b) == (a \div b) + (IF a % b > 0 THEN 1 ELSE 0)

\* str_to_padded_array::<N>, of an ASCII string no longer than N
str_to_padded_array(N, input) == input \o Zeros(N - Len(input))

\* get_modified_time_sec: duration_since fails before 2000-01-01
ClockBeforeBase(t) == t < Y2K
get_modified_time_sec(t) == t - Y2K

\* generate_gci, lines 170-172: the block count
Blocks(file) == DivCeil(GciFileMetadataSize + Len(file), BLOCK_SIZE)

\* lines 177-193: the GciHeader as bytes
GciHeader(a, t) ==
    SubSeq(a.gamecode, 1, 4) \o SubSeq(a.gamecode, 5, 6) \o << 255, 2 >>
        \o str_to_padded_array(MAX_FILE_NAME_SIZE, a.file_name)
        \o BE32(get_modified_time_sec(t)) \o BE32(0)
        \o BE16(2) \o BE16(3) \o << 4, 0 >>
        \o BE16(0) \o BE16(Blocks(a.file) % U16) \o BE16(255)
        \o BE32(BANNER_SIZE + ICON_SIZE)

\* lines 196-203: the GciFileMetadata as bytes
GciFileMetadata(a) ==
    a.banner \o a.icon
        \o str_to_padded_array(MAX_TITLE_SIZE, a.title)
        \o str_to_padded_array(MAX_DESCRIPTION_SIZE, a.description)
        \o BE32(Len(a.file))
        \o Zeros(FILE_HEADER_PADDING_SIZE)

\* line 209: the number of zero bytes appended after the payload
GciPadding(file) == Blocks(file) * BLOCK_SIZE - Len(file)

\* lines 206-211
generate_gci(a, t) ==
    GciHeader(a, t) \o GciFileMetadata(a) \o a.file \o Zeros(GciPadding(a.file))


(***************************************************************************)
(* The inputs of gcipack: payloads whose length is at, just below and just *)
(* above the block boundaries, and metadata with one argument varied.      *)
(***************************************************************************)
MaxPayloadBlocks == 1

PayloadLens ==
    { k * BLOCK_SIZE + d :
        k \in 0..MaxPayloadBlocks,
        d \in { 0, 1, BLOCK_SIZE - FILE_HEADER_SIZE - 1, BLOCK_SIZE - FILE_HEADER_SIZE,
                BLOCK_SIZE - FILE_HEADER_SIZE + 1 } }

\* "GM2E8P"
DefaultGameCode == << 71, 77, 50, 69, 56, 80 >>
DefaultArgs ==
    [file |-> Fill(170, 1), file_name |-> << 114, 101, 108 >>, title |-> << 84 >>,
     description |-> << 68 >>, banner |-> Fill(1, BANNER_SIZE), icon |-> Fill(2, ICON_SIZE),
     gamecode |-> DefaultGameCode]

\* Empty, short, 32 bytes, 33 bytes, non-ASCII of 1 and of 16 characters
Texts == { << >>, << 97 >>, Fill(65, 32), Fill(65, 33), << 233 >>, Fill(233, 16) }
\* 6, 5 and 7 ASCII characters, 6 characters of which one is not ASCII
GameCodes ==
    { DefaultGameCode, << 71, 77, 50, 69, 56 >>, << 71, 77, 50, 69, 56, 80, 48 >>,
      << 71, 77, 50, 69, 56, 233 >> }
Banners == { Fill(1, BANNER_SIZE), Fill(1, BANNER_SIZE - 1) }
Icons == { Fill(2, ICON_SIZE), Fill(2, ICON_SIZE + 1), << >> }
\* 1999-12-31 23:59:59, 2000-01-01 00:00:00, 2026-11-04 00:00:00
Clocks == { Y2K - 1, Y2K, 1793750400 }

GciArgs ==
    { [DefaultArgs EXCEPT !.file = Fill(170, n)] : n \in PayloadLens }
    \cup { [DefaultArgs EXCEPT !.file_name = t] : t \in Texts }
    \cup { [DefaultArgs EXCEPT !.title = t] : t \in Texts }
    \cup { [DefaultArgs EXCEPT !.description = t] : t \in Texts }
    \cup { [DefaultArgs EXCEPT !.gamecode = g] : g \in GameCodes }
    \cup { [DefaultArgs EXCEPT !.banner = b] : b \in Banners }
    \cup { [DefaultArgs EXCEPT !.icon = i] : i \in Icons }

\* No call of elf2rel is under way
Elf2RelIdle ==
    /\ elf = Elf(<< >>, EmptyMap, << >>)
    /\ symbol_map = << >>
    /\ module_id = 0
    /\ rel_version = V1
    /\ pc = "idle"
    /\ result = "running"
    /\ output = << >>
    /\ rel = << >>
    /\ section_pos = 0
    /\ section_info_buffer = << >>
    /\ section_stats = NoSectionStats
    /\ symbol_table = EmptyMap
    /\ relocations = << >>
    /\ wr = NoWr
    /\ relocation_stats = NoRelocationStats

InitGci ==
    /\ Elf2RelIdle
    /\ args \in GciArgs
    /\ now \in Clocks
    /\ gci_pc = "gcipack"
    /\ gci_result = GciRunning
    /\ gci = << >>

\* gcipack, line 229: validate(..)?
Validate ==
    /\ gci_pc = "gcipack"
    /\ LET v == validate(args)
       IN  IF v.ok
           THEN gci_pc' = "generate_gci" /\ gci_result' = gci_result
           ELSE /\ gci_pc' = "returned"
                /\ gci_result' = [status |-> "Err", error |-> v.error, kind |-> v.kind]
    /\ UNCHANGED << elf2rel_vars, args, now, gci >>

\* gcipack, lines 230-238: Ok(generate_gci(..)), or the panic of the unwrap in
\* get_modified_time_sec
GenerateGci ==
    /\ gci_pc = "generate_gci"
    /\ gci_pc' = "returned"
    /\ IF ClockBeforeBase(now)
       THEN gci' = gci /\ gci_result' = [status |-> "panic", error |-> "", kind |-> ""]
       ELSE /\ gci' = generate_gci(args, now)
            /\ gci_result' = [status |-> "Ok", error |-> "", kind |-> ""]
    /\ UNCHANGED << elf2rel_vars, args, now >>

NextGci ==
    \/ Validate
    \/ GenerateGci

SpecGci == InitGci /\ [][NextGci]_vars

(***************************************************************************)
(* C14 as stated: for every payload gcipack accepts, the bytes after the   *)
(* 0x40-byte GciHeader number block_count * 0x2000, block_count the value  *)
(* in the header, which is the least number of 0x2000-byte blocks that     *)
(* holds the metadata block and the payload; the output is 0x40 +          *)
(* block_count * 0x2000 bytes long, and the padding after the payload is   *)
(* zero bytes, fewer than 0x2000.                                          *)
(***************************************************************************)
FileBlockCount(b) == ReadBE16(b, 56)

C14_SizeConsistent ==
    gci_result.status = "Ok" =>
        LET block_count == FileBlockCount(gci)
            content == GciFileMetadataSize + Len(args.file)
            payload_end == 64 + content
        IN  /\ block_count * 8192 >= content
            /\ (block_count - 1) * 8192 < content
            /\ Len(gci) - 64 = block_count * 8192
            /\ Len(gci) = 64 + block_count * 8192
            /\ Len(gci) - payload_end < 8192
            /\ \A o \in payload_end..(Len(gci) - 1) : gci[o + 1] = 0


=============================================================================
